---- MODULE Spec2Model ----
(***************************************************************************)
(* Model of ThomasEngine (src/thomas_phase_1_cli_engine_python.py): the    *)
(* skim/scoop pass over a portfolio, its cash balance and its action log.  *)
(*                                                                         *)
(* Number representation (Python floats are modelled as exact fixed-point  *)
(* or rational numbers):                                                   *)
(*   shares, core_shares : integer thousandths of a share                  *)
(*   price               : integer cents                                   *)
(*   cost_basis          : rational [n, d] of cents, d > 0, in lowest terms*)
(*   cash, cash_delta, scoop_amount, min_skim_proceeds :                   *)
(*                         integer units of 1/100000 dollar, which is      *)
(*                         (thousandth of a share) * (cent)                *)
(***************************************************************************)
EXTENDS Integers, Sequences, FiniteSets, TLC

VARIABLES positions, cash, actions, scoop_amount, min_skim_proceeds,
          pc, idx, runs, start_positions, start_cash

vars == <<positions, cash, actions, scoop_amount, min_skim_proceeds,
          pc, idx, runs, start_positions, start_cash>>

\* ---------------------------- Bounds ---------------------------- \*

MaxPositions == 2
MaxRuns == 2

\* ---------------------------- Units ---------------------------- \*

\* one dollar in cash units; one dollar in cents; one share in thousandths
Dollar == 1000 * 100

\* ---------------------------- Arithmetic ---------------------------- \*

Abs(x) == IF x < 0 THEN -x ELSE x

RECURSIVE GCD(_, _)
GCD(a, b) == IF b = 0 THEN a ELSE GCD(b, a % b)

\* the rational n/d in lowest terms with a positive denominator
Rat(n, d) ==
    LET g == GCD(Abs(n), Abs(d))
        s == IF d < 0 THEN -1 ELSE 1
    IN  [n |-> s * (n \div g), d |-> s * (d \div g)]

RatLess(a, b) == a.n * b.d < b.n * a.d

\* r * k for a rational r and an integer k, cancelling before multiplying
RatTimesInt(r, k) ==
    LET g == GCD(Abs(k), r.d)
    IN  [n |-> r.n * (k \div g), d |-> r.d \div g]

\* (r + c) / k for a rational r and integers c, k with k # 0
RatPlusIntOver(r, c, k) == Rat(r.n + c * r.d, r.d * k)

\* round(n/d) to the nearest integer, ties to the even one (d > 0).  Python
\* rounds the binary float, so a decimal tie such as 1.005 may go either way;
\* the share quantities in Holdings never end in 5 thousandths.
RoundHalfEven(n, d) ==
    LET q == n \div d
        r == n % d
    IN  IF 2 * r < d THEN q
        ELSE IF 2 * r > d THEN q + 1
        ELSE IF q % 2 = 0 THEN q ELSE q + 1

\* round(x, 2) of a share quantity x given in thousandths; result in thousandths
Round2Shares(x) == 10 * RoundHalfEven(x, 10)

Max(a, b) == IF a >= b THEN a ELSE b

\* ---------------------------- Data models ---------------------------- \*

Position(sym, sh, cb, pr, core) ==
    [symbol |-> sym, shares |-> sh, cost_basis |-> Rat(cb, 1), price |-> pr,
     core_shares |-> core]

PriceRat(pos) == [n |-> pos.price, d |-> 1]

\* Position.gain_pct >= 0
GainPctNonNeg(pos) ==
    IF pos.cost_basis.n <= 0 THEN TRUE
    ELSE pos.price * pos.cost_basis.d - pos.cost_basis.n >= 0

Action(pos, kind, sh, pr, delta) ==
    [symbol |-> pos.symbol, action |-> kind, shares |-> sh, price |-> pr,
     cash_delta |-> delta]

\* ---------------------------- Skim logic ---------------------------- \*

SkimTrigger(pos) == RatLess(pos.cost_basis, PriceRat(pos)) /\ GainPctNonNeg(pos)

\* mutant: core shares are not held back
Skimmable_IgnoreCore(pos) == Max(0, pos.shares)

Skimmable(pos) == Max(0, pos.shares - pos.core_shares)

SellShares(pos) == Round2Shares(Skimmable(pos))

Proceeds(pos) == SellShares(pos) * pos.price

SkimFires(pos, minp) ==
    SkimTrigger(pos) /\ Skimmable(pos) > 0 /\ Proceeds(pos) >= minp

NoteFires(pos, minp) ==
    SkimTrigger(pos) /\ Skimmable(pos) > 0 /\ Proceeds(pos) < minp

\* mutant: the unrounded skimmable quantity is taken off the position
AfterSkim_Unrounded(pos) == [pos EXCEPT !.shares = pos.shares - Skimmable(pos)]

AfterSkim(pos) == [pos EXCEPT !.shares = pos.shares - SellShares(pos)]

SkimAction(pos) == Action(pos, "Skim", SellShares(pos), pos.price, Proceeds(pos))

NoteAction(pos) == Action(pos, "Note", 0, pos.price, 0)

\* ---------------------------- Scoop logic ---------------------------- \*

\* mutant: the price is not compared with the cost basis
ScoopTrigger_NoBasisCheck(pos, c, amt) == c >= amt

ScoopTrigger(pos, c, amt) == RatLess(PriceRat(pos), pos.cost_basis) /\ c >= amt

\* scoop_amount / pos.price raises ZeroDivisionError
ScoopRaises(pos, c, amt) == ScoopTrigger(pos, c, amt) /\ pos.price = 0

\* round(scoop_amount / price, 2), in thousandths of a share (price # 0)
BuyShares(pos, amt) ==
    IF pos.price > 0 THEN 10 * RoundHalfEven(amt, 10 * pos.price)
    ELSE 10 * RoundHalfEven(-amt, -10 * pos.price)

Cost(pos, amt) == BuyShares(pos, amt) * pos.price

\* mutant: the cost is not compared with the cash held
ScoopGuard_NoCashCheck(pos, c, amt) == BuyShares(pos, amt) > 0

ScoopGuard(pos, c, amt) == Cost(pos, amt) <= c /\ BuyShares(pos, amt) > 0

ScoopFires(pos, c, amt) ==
    ScoopTrigger(pos, c, amt) /\ pos.price # 0 /\ ScoopGuard(pos, c, amt)

\* mutant: the cost basis is not re-averaged
NewCostBasis_Unchanged(pos, amt) == pos.cost_basis

\* new_total_cost / pos.shares if pos.shares > 0 else pos.cost_basis
NewCostBasis(pos, amt) ==
    LET total == RatTimesInt(pos.cost_basis, pos.shares)
        sh    == pos.shares + BuyShares(pos, amt)
    IN  IF sh > 0 THEN RatPlusIntOver(total, Cost(pos, amt), sh)
        ELSE pos.cost_basis

AfterScoop(pos, amt) ==
    [pos EXCEPT !.shares = pos.shares + BuyShares(pos, amt),
                !.cost_basis = NewCostBasis(pos, amt)]

\* mutant: the cost is logged with the sign of proceeds
ScoopAction_PositiveDelta(pos, amt) ==
    Action(pos, "Scoop", BuyShares(pos, amt), pos.price, Cost(pos, amt))

ScoopAction(pos, amt) ==
    Action(pos, "Scoop", BuyShares(pos, amt), pos.price, -Cost(pos, amt))

\* ---------------------------- Inputs ---------------------------- \*

Symbols == <<"A", "B", "C", "D">>

\* <<shares, cost basis, price, core shares>>
Holdings ==
    { <<100000, 5000, 5500, 0>>,     \* 100 @ 50 -> 55
      <<1000, 1000, 1005, 0>>,       \* 1 @ 10 -> 10.05
      <<100, 6000, 6500, 0>>,        \* 0.1 @ 60 -> 65
      <<10000, 24000, 23000, 0>>,    \* 10 @ 240 -> 230
      <<996, 900, 1000, 0>>,         \* 0.996 @ 9 -> 10
      <<5996, 900, 1000, 5000>>,     \* 5.996 (5 core) @ 9 -> 10
      <<1004, 900, 999, 0>>,         \* 1.004 @ 9 -> 9.99
      <<1004, 0, 1000, 0>>,          \* 1.004 @ 0 -> 10
      <<1000, 900, 1000, 1000>>,     \* all core
      <<996, 900, 1000, 1000>>,      \* core above shares
      <<1000, 900, 0, 0>>,           \* price 0
      <<1000, 900, -100, 0>>,        \* negative price
      <<1000, 900, 700, 0>>,         \* 1 @ 9 -> 7
      <<0, 300000, 250000, 0>>,      \* 0 @ 3000 -> 2500
      <<0, 1200, 1000, 0>> }         \* 0 @ 12 -> 10

CashInputs == {0, 5 * Dollar, 10 * Dollar, 20 * Dollar}

ScoopAmounts == {5 * Dollar, 10 * Dollar}

MinSkimProceedsValues == {5 * Dollar, 10 * Dollar}

Portfolios ==
    UNION { [1..n -> Holdings] : n \in 1..MaxPositions }

\* ---------------------------- Engine ---------------------------- \*

Init ==
    /\ \E hs \in Portfolios :
          positions = [k \in DOMAIN hs |->
                          Position(Symbols[k], hs[k][1], hs[k][2], hs[k][3], hs[k][4])]
    /\ cash \in CashInputs
    /\ scoop_amount \in ScoopAmounts
    /\ min_skim_proceeds \in MinSkimProceedsValues
    /\ actions = <<>>
    /\ pc = "idle"
    /\ idx = 0
    /\ runs = 0
    /\ start_positions = positions
    /\ start_cash = cash

\* a call of run(): the loop starts at the first position
Run ==
    /\ pc \in {"idle", "done", "raised"}
    /\ runs < MaxRuns
    /\ runs' = runs + 1
    /\ idx' = 1
    /\ pc' = "skim"
    /\ UNCHANGED <<positions, cash, actions, scoop_amount, min_skim_proceeds,
                   start_positions, start_cash>>

\* the skim branch of the loop body for the current position
SkimStep ==
    /\ pc = "skim"
    /\ LET pos == positions[idx] IN
          IF SkimFires(pos, min_skim_proceeds)
          THEN /\ positions' = [positions EXCEPT ![idx] = AfterSkim(pos)]
               /\ cash' = cash + Proceeds(pos)
               /\ actions' = Append(actions, SkimAction(pos))
          ELSE IF NoteFires(pos, min_skim_proceeds)
          THEN /\ actions' = Append(actions, NoteAction(pos))
               /\ UNCHANGED <<positions, cash>>
          ELSE UNCHANGED <<positions, cash, actions>>
    /\ pc' = "scoop"
    /\ UNCHANGED <<scoop_amount, min_skim_proceeds, idx, runs,
                   start_positions, start_cash>>

\* the scoop branch of the loop body, then the loop advances or ends
ScoopStep ==
    /\ pc = "scoop"
    /\ LET pos == positions[idx] IN
          IF ScoopRaises(pos, cash, scoop_amount)
          THEN /\ pc' = "raised"
               /\ UNCHANGED <<positions, cash, actions, idx>>
          ELSE /\ IF ScoopFires(pos, cash, scoop_amount)
                  THEN /\ positions' = [positions EXCEPT ![idx] = AfterScoop(pos, scoop_amount)]
                       /\ cash' = cash - Cost(pos, scoop_amount)
                       /\ actions' = Append(actions, ScoopAction(pos, scoop_amount))
                  ELSE UNCHANGED <<positions, cash, actions>>
               /\ IF idx < Len(positions)
                  THEN idx' = idx + 1 /\ pc' = "skim"
                  ELSE idx' = idx /\ pc' = "done"
    /\ UNCHANGED <<scoop_amount, min_skim_proceeds, runs,
                   start_positions, start_cash>>

Next == Run \/ SkimStep \/ ScoopStep

Spec == Init /\ [][Next]_vars

\* ---------------------------- Properties ---------------------------- \*

Cur == positions[idx]

Last(s) == s[Len(s)]

\* exactly one record was appended to the action log in this step
OneAppended == Len(actions') = Len(actions) + 1 /\ SubSeq(actions', 1, Len(actions)) = actions

\* only the shares of the current position changed
OnlyCurShares == positions' = [positions EXCEPT ![idx].shares = positions'[idx].shares]

\* price > costBasis > 0
InGain(pos) == pos.cost_basis.n > 0 /\ pos.price * pos.cost_basis.d > pos.cost_basis.n

BelowBasis(pos) == pos.price * pos.cost_basis.d < pos.cost_basis.n

\* the step sold `sold` shares of the current position and logged it as a Skim
SkimEffect(sold) ==
    /\ OnlyCurShares
    /\ positions'[idx].shares = Cur.shares - sold
    /\ cash' = cash + sold * Cur.price
    /\ OneAppended
    /\ Last(actions').action = "Skim"
    /\ Last(actions').symbol = Cur.symbol
    /\ Last(actions').shares = sold
    /\ Last(actions').cash_delta = sold * Cur.price

\* C1 (as claimed): a position in gain whose skimmable quantity
\* max(0, shares - coreShares) is worth at least minSkimProceeds is skimmed:
\* shares go down by the amount sold, cash goes up by amount * price and one
\* matching Skim record is appended.
C1_SkimOnSkimmableProceeds ==
    [][(pc = "skim" /\ InGain(Cur)
          /\ Max(0, Cur.shares - Cur.core_shares) * Cur.price >= min_skim_proceeds)
       => \E sold \in 1..Cur.shares + 10 : SkimEffect(sold)]_vars

\* C1 (amended): a position in gain with skimmable > 0 whose quantity rounded
\* to 2 decimals, round(max(0, shares - coreShares), 2), is worth at least
\* minSkimProceeds is skimmed by exactly that rounded quantity.
C1_SkimOnRoundedProceeds ==
    [][(pc = "skim" /\ InGain(Cur)
          /\ Cur.shares - Cur.core_shares > 0
          /\ 10 * RoundHalfEven(Cur.shares - Cur.core_shares, 10) * Cur.price
                >= min_skim_proceeds)
       => SkimEffect(10 * RoundHalfEven(Cur.shares - Cur.core_shares, 10))]_vars

\* a skim has just been applied whose rounded quantity differs from the
\* skimmable quantity
C1_Witness ==
    /\ pc = "scoop" /\ runs = 1 /\ Len(actions) = idx
    /\ Last(actions).action = "Skim"
    /\ Last(actions).symbol = Cur.symbol
    /\ Last(actions).shares # start_positions[idx].shares - start_positions[idx].core_shares
    /\ Cur.shares = start_positions[idx].shares - Last(actions).shares

\* the scoop of `buy` shares at `cost` was applied to the current position
ScoopEffect(buy, cost) ==
    /\ OneAppended
    /\ Last(actions').action = "Scoop"
    /\ Last(actions').symbol = Cur.symbol
    /\ Last(actions').shares = buy
    /\ Last(actions').cash_delta = -cost
    /\ cash' = cash - cost
    /\ positions' = [positions EXCEPT ![idx] = positions'[idx]]
    /\ positions'[idx].shares = Cur.shares + buy
    /\ positions'[idx].price = Cur.price
    /\ positions'[idx].core_shares = Cur.core_shares
    /\ Cur.shares + buy # 0
    /\ positions'[idx].cost_basis =
          RatPlusIntOver(RatTimesInt(Cur.cost_basis, Cur.shares), cost, Cur.shares + buy)

\* round(scoopAmount / price, 2) for price > 0
RoundedBuy(pos) == 10 * RoundHalfEven(scoop_amount, 10 * pos.price)

\* C2 (as claimed): a position below its cost basis with price > 0 is scooped
\* whenever cash >= scoopAmount when it is evaluated: cash goes down by
\* cost = buyShares * price, shares go up by buyShares and the cost basis
\* becomes the weighted average.
C2_ScoopWheneverCashCoversAmount ==
    [][(pc = "scoop" /\ BelowBasis(Cur) /\ Cur.price > 0 /\ cash >= scoop_amount)
       => ScoopEffect(RoundedBuy(Cur), RoundedBuy(Cur) * Cur.price)]_vars

\* C2 (amended): the same, provided also buyShares > 0 and cost <= cash.
C2_ScoopWhenCashCoversCost ==
    [][(pc = "scoop" /\ BelowBasis(Cur) /\ Cur.price > 0 /\ cash >= scoop_amount
          /\ RoundedBuy(Cur) > 0 /\ RoundedBuy(Cur) * Cur.price <= cash)
       => ScoopEffect(RoundedBuy(Cur), RoundedBuy(Cur) * Cur.price)]_vars

\* a scoop has just been applied to a position that held shares
C2_Witness ==
    /\ pc \in {"skim", "done"} /\ Len(actions) > 0
    /\ Last(actions).action = "Scoop"
    /\ \E k \in DOMAIN positions :
          /\ positions[k].symbol = Last(actions).symbol
          /\ positions[k].shares > Last(actions).shares
          /\ RatLess(positions[k].cost_basis, start_positions[k].cost_basis)

\* C3: a position with price <= 0 that meets the scoop trigger is skipped:
\* run() does not raise, nothing is bought or logged, cash is unchanged.
C3_NonPositivePriceSkipped ==
    [][(pc = "scoop" /\ Cur.price <= 0 /\ BelowBasis(Cur) /\ cash >= scoop_amount)
       => (pc' # "raised" /\ UNCHANGED <<positions, cash, actions>>)]_vars

ValidPosition(pos) ==
    pos.shares >= 0 /\ pos.core_shares >= 0 /\ pos.cost_basis.n >= 0 /\ pos.price >= 0

ValidInput == \A k \in DOMAIN start_positions : ValidPosition(start_positions[k])

\* C4: from valid input, every position has shares >= 0 in every state during
\* and after run().
C4_SharesNonNegative ==
    ValidInput => \A k \in DOMAIN positions : positions[k].shares >= 0

\* C5: the skim branch leaves a position with coreShares >= shares, the cash
\* and the log untouched, whatever the gain.
C5_CoreSharesProtected ==
    [][(pc = "skim" /\ Cur.core_shares >= Cur.shares)
       => UNCHANGED <<positions, cash, actions>>]_vars

\* the skim branch has passed over a fully protected position that is in gain
C5_Witness ==
    /\ pc = "scoop" /\ runs = 1 /\ idx = 1 /\ actions = <<>>
    /\ Cur.shares > 0 /\ Cur.core_shares >= Cur.shares
    /\ InGain(Cur) /\ Cur.shares * Cur.price >= min_skim_proceeds

\* the skim trigger holds, something is skimmable, and the proceeds
\* skimmable * price are below the minimum
BelowMinimum(pos) ==
    /\ RatLess(pos.cost_basis, PriceRat(pos))
    /\ pos.shares - pos.core_shares > 0
    /\ (pos.shares - pos.core_shares) * pos.price < min_skim_proceeds

\* C6: when the skim trigger holds with skimmable > 0 and proceeds
\* skimmable * price < minSkimProceeds, the skim branch changes no position
\* and no cash and appends one Note with shares 0 and cash_delta 0, and the
\* scoop branch adds nothing for that position.
C6_NoteBelowMinimum ==
    [][/\ (pc = "skim" /\ BelowMinimum(Cur))
          => /\ UNCHANGED <<positions, cash>>
             /\ OneAppended
             /\ Last(actions').action = "Note"
             /\ Last(actions').symbol = Cur.symbol
             /\ Last(actions').shares = 0
             /\ Last(actions').cash_delta = 0
       /\ (pc = "scoop" /\ BelowMinimum(Cur))
          => UNCHANGED <<positions, cash, actions>>]_vars

\* C7: a second call of run() changes no position, no cash and no log entry.
C7_SecondRunNoOp ==
    [][runs >= 2 => UNCHANGED <<positions, cash, actions>>]_vars

\* C8 (as claimed): some position can receive a Skim and then a Scoop in one
\* pass: with the engine's settings there is a holding and a cash balance for
\* which the skim fires and the scoop then fires on the result.
C8_SkimThenScoopPossible ==
    \E h \in Holdings, c \in CashInputs :
        LET pos == Position("A", h[1], h[2], h[3], h[4]) IN
            /\ SkimFires(pos, min_skim_proceeds)
            /\ ScoopFires(AfterSkim(pos), c + Proceeds(pos), scoop_amount)

\* C8 (amended): the scoop check runs after the skim branch whether or not it
\* fired, but no position ever has a Skim (or Note) record followed by a
\* Scoop record: the two triggers exclude each other.
C8_NoSkimThenScoop ==
    \A a, b \in DOMAIN actions :
        (a < b /\ actions[a].symbol = actions[b].symbol
               /\ actions[a].action \in {"Skim", "Note"})
        => actions[b].action # "Scoop"

\* a position was skimmed and its scoop check then ran with enough cash
C8_Witness ==
    /\ pc = "done" /\ runs = 1 /\ Len(positions) = 1
    /\ Len(actions) = 1 /\ actions[1].action = "Skim"
    /\ cash >= scoop_amount /\ positions[1].price > 0

\* C9: cash never goes below zero, and a Scoop is only recorded when the cash
\* held at that moment covers both scoopAmount and the cost of the scoop.
C9_NeverScoopWithoutCash ==
    /\ [](cash >= 0)
    /\ [][(Len(actions') > Len(actions) /\ Last(actions').action = "Scoop")
          => (cash >= scoop_amount /\ cash >= -Last(actions').cash_delta
                /\ cash' = cash + Last(actions').cash_delta)]_vars

\* a scoop has taken the cash below scoopAmount
C9_Witness ==
    /\ Len(actions) > 0 /\ Last(actions).action = "Scoop"
    /\ cash < scoop_amount /\ pc \in {"skim", "done"}

RECURSIVE SumCash(_)
SumCash(s) == IF s = <<>> THEN 0 ELSE Last(s).cash_delta + SumCash(SubSeq(s, 1, Len(s) - 1))

\* net shares bought (Scoop) minus sold (Skim) logged for a symbol
RECURSIVE NetShares(_, _)
NetShares(s, sym) ==
    IF s = <<>> THEN 0
    ELSE NetShares(SubSeq(s, 1, Len(s) - 1), sym)
         + (IF Last(s).symbol # sym THEN 0
            ELSE IF Last(s).action = "Skim" THEN -Last(s).shares
            ELSE IF Last(s).action = "Scoop" THEN Last(s).shares
            ELSE 0)

\* C10: the log accounts for every change: cash is the starting cash plus the
\* logged cash deltas, each position's shares are its starting shares minus
\* skimmed plus scooped shares, and the deltas have the sign of their kind.
C10_LogAccountsForState ==
    /\ cash = start_cash + SumCash(actions)
    /\ \A k \in DOMAIN positions :
          positions[k].shares
             = start_positions[k].shares + NetShares(actions, positions[k].symbol)
    /\ \A a \in DOMAIN actions :
          /\ actions[a].action = "Skim" => actions[a].cash_delta >= 0
          /\ actions[a].action = "Scoop" => actions[a].cash_delta <= 0
          /\ actions[a].action = "Note"
                => actions[a].shares = 0 /\ actions[a].cash_delta = 0

\* a run has finished with both a Skim and a Scoop in the log
C10_Witness ==
    /\ pc = "done"
    /\ \E a, b \in DOMAIN actions :
          actions[a].action = "Skim" /\ actions[b].action = "Scoop"

====
